---- MODULE Spec2Model ----
(***************************************************************************)
(* A model of github.com/gobwas/cli: the dispatch of one process           *)
(* invocation through a tree of commands (runner.go, the Commands table    *)
(* and Container), the command path carried by contexts (context.go), the  *)
(* signal listeners (os.go) and the outcome resolution of Runner.Main.     *)
(***************************************************************************)
EXTENDS Integers, Sequences, FiniteSets, TLC

\* ------------------------------------------------------------- bounds

\* The longest argument list (os.Args[1:]) explored.
MaxArgs == 3
\* The number of signals sent to the process in one behaviour.
MaxSignals == 3
\* The largest Runner.ForceTerm explored.
MaxForceTerm == 2

\* The number of contexts made in one behaviour of CtxSpec.
MaxCtxs == 6

\* The words an argument list is made of.
Tokens == {"help", "a", "b", "sleep", "foo", "-d", "2s", "-h"}

\* The signal kinds a Runner may trap.
Signals == {"SIGINT", "SIGTERM"}

Argvs == UNION {[1..k -> Tokens] : k \in 0..MaxArgs}

\* The invocations during which signals are sent: signal deliveries are
\* interleaved with every step of these.
SigArgvs == {<<>>} \cup {<<t>> : t \in Tokens}

\* ------------------------------------------------------------- errors

NilErr == [kind |-> "nil", code |-> 0, msg |-> <<>>]

\* var errHelp = errors.New("help requested")
errHelp == [kind |-> "errHelp", code |-> 0, msg |-> <<"help requested">>]

\* flag.ErrHelp of the standard flag package.
flagErrHelp == [kind |-> "flag.ErrHelp", code |-> 0, msg |-> <<"flag: help requested">>]

\* A plain error (errors.New, a flag parse failure, ctx.Err()).
ErrorNew(msg) == [kind |-> "error", code |-> 0, msg |-> msg]

Exitf(code, msg) == [kind |-> "exitError", code |-> code, msg |-> msg]

\* errors.As(err, &e) with e *exitError
IsExitError(e) == e.kind = "exitError"

\* ------------------------------------------------------ the command graph
\* The application owns the graph; the engine only reads capabilities and
\* invokes Run.  Commands are named by identifiers.
\*   root   = Commands{"a": tableB, "sleep": sleep, "b": box}
\*   tableB = Commands{"b": leaf, "a": root, "help": leaf}
\*   empty  = Commands{}
\*   sleep  = a command with DefineFlags (duration flag d), Name, Synopsis
\*   leaf   = a CommandFunc: Run only
\*   box    = &Container{Command: leaf}
\*   app    = &Container{Command: root, DoDefineFlags: bool flag verbose}

CmdIds == {"root", "tableB", "empty", "sleep", "leaf", "box", "app"}

Roots == {"root", "empty", "app"}

\* The dynamic type of a command.
Kind(c) ==
    CASE c \in {"root", "tableB", "empty"} -> "Commands"
      [] c \in {"box", "app"} -> "Container"
      [] OTHER -> "leaf"

\* type Commands map[string]Command
Commands(c) ==
    CASE c = "root" -> ("a" :> "tableB") @@ ("sleep" :> "sleep") @@ ("b" :> "box")
      [] c = "tableB" -> ("b" :> "leaf") @@ ("a" :> "root") @@ ("help" :> "leaf")
      [] OTHER -> <<>>

\* Container.Command
Wrapped(c) == CASE c = "box" -> "leaf" [] c = "app" -> "root" [] OTHER -> "nil"

\* The override functions the Container type has a field for.
ContainerFields == {"DoName", "DoSynopsis", "DoDescription", "DoDefineFlags"}

\* The override functions a Container has set.
DoSet(c) == IF c = "app" THEN {"DoDefineFlags"} ELSE {}

\* A line of text: a tag, a string and a list of words.
Line(tag, text, words) == [tag |-> tag, text |-> text, words |-> words]

\* The keys of the model's tables in lexical order (sort.Strings).
KeyOrder == <<"a", "b", "help", "sleep">>

SortedKeys(keys) == SelectSeq(KeyOrder, LAMBDA k : k \in keys)

\* The interfaces a leaf command implements, and what they return.
LeafName(c) == IF c = "sleep" THEN "Suspends execution for a given amount of time." ELSE ""
LeafSynopsis(c) == IF c = "sleep" THEN "[-d duration]" ELSE ""
LeafFlags(c) ==
    IF c = "sleep"
    THEN "d" :> [type |-> "duration", def |-> "1s", value |-> "1s"]
    ELSE <<>>

\* DoDefineFlags of app: fs.BoolVar(&core.verbose, "verbose", false, ...)
AppFlags == "verbose" :> [type |-> "bool", def |-> "false", value |-> "false"]

\* cmd.(FlagDefiner): *Container always is one, Commands never.
IsFlagDefiner(c) == Kind(c) = "Container" \/ c = "sleep"

RECURSIVE name(_)
\* func name(cmd Command) string, with Container.Name
name(c) ==
    CASE Kind(c) = "Container" ->
            IF "DoName" \in DoSet(c) THEN "" ELSE name(Wrapped(c))
      [] Kind(c) = "Commands" -> ""
      [] OTHER -> LeafName(c)

RECURSIVE synopsis(_)
\* func synopsis(cmd Command) string, with Commands.Synopsis, Container.Synopsis
synopsis(c) ==
    CASE Kind(c) = "Container" ->
            IF "DoSynopsis" \in DoSet(c) THEN "" ELSE synopsis(Wrapped(c))
      [] Kind(c) = "Commands" -> "[help] <command>"
      [] OTHER -> LeafSynopsis(c)

\* func (c Commands) Description() string: a "Commands:" line, then one row
\* per key in sorted order with the entry's name.
CommandsDescription(c) ==
    LET ks == SortedKeys(DOMAIN Commands(c))
    IN  <<Line("Commands:", "", <<>>)>> \o
        [i \in 1..Len(ks) |-> Line("row", ks[i], <<name(Commands(c)[ks[i]])>>)]

RECURSIVE description(_)
\* func description(cmd Command) string, as a list of lines ("" is <<>>)
description(c) ==
    CASE Kind(c) = "Container" ->
            IF "DoDescription" \in DoSet(c) THEN <<>> ELSE description(Wrapped(c))
      [] Kind(c) = "Commands" -> CommandsDescription(c)
      [] OTHER -> <<>>

RECURSIVE defineFlags(_)
\* func defineFlags(cmd Command, fs *flag.FlagSet), with Container.DefineFlags:
\* the flags the command registers in the store it is given.
defineFlags(c) ==
    CASE Kind(c) = "Container" ->
            IF "DoDefineFlags" \in DoSet(c) THEN AppFlags ELSE defineFlags(Wrapped(c))
      [] IsFlagDefiner(c) -> LeafFlags(c)
      [] OTHER -> <<>>

\* ------------------------------------------------------------ flag stores
\* A *flag.FlagSet is an index into flagSets; 0 is the nil pointer.

\* func newFlagSet(name string) *flag.FlagSet, then defineFlags(cmd, fs)
newFlagSet(nm, formal) == [name |-> nm, formal |-> formal, actual |-> {}]

\* Whether flag.Parse takes the token for a flag: len(s) >= 2 and s[0] = '-'.
IsFlagTok(s) == s \in {"-d", "-h"}

\* The flag's name: the token without its minus.
FlagOf(s) == IF s = "-d" THEN "d" ELSE "h"

\* Value.Set of a flag of the given type: time.ParseDuration for a duration.
ValidValue(type, v) == type = "duration" => v = "2s"

\* FlagSet.Set: the value is stored and the flag is marked as set.
SetFlag(fs, nm, v) ==
    [fs EXCEPT !.formal[nm].value = v, !.actual = @ \cup {nm}]

RECURSIVE Parse(_, _)
\* flag.FlagSet.Parse with ContinueOnError: parseOne until the first
\* non-flag token or an error.
Parse(fs, as) ==
    IF as = <<>> \/ ~IsFlagTok(Head(as))
    THEN [fs |-> fs, args |-> as, err |-> NilErr]
    ELSE LET nm == FlagOf(Head(as))
             rest == Tail(as)
         IN  IF nm \notin DOMAIN fs.formal
             THEN [fs |-> fs, args |-> rest,
                   err |-> IF nm \in {"help", "h"}
                           THEN flagErrHelp
                           ELSE ErrorNew(<<"flag provided but not defined", nm>>)]
             ELSE IF fs.formal[nm].type = "bool"
             THEN Parse(SetFlag(fs, nm, "true"), rest)
             ELSE IF rest = <<>>
             THEN [fs |-> fs, args |-> rest,
                   err |-> ErrorNew(<<"flag needs an argument", nm>>)]
             ELSE IF ~ValidValue(fs.formal[nm].type, Head(rest))
             THEN [fs |-> fs, args |-> Tail(rest),
                   err |-> ErrorNew(<<"invalid value", Head(rest), nm>>)]
             ELSE Parse(SetFlag(fs, nm, Head(rest)), Tail(rest))

\* var defaultParseFlags: (fs.Args(), nil) or (nil, err)
defaultParseFlags(fs, as) ==
    LET p == Parse(fs, as)
    IN  IF p.err # NilErr THEN [p EXCEPT !.args = <<>>] ELSE p

\* The flag names of the model in lexical order (FlagSet.VisitAll).
FlagOrder == <<"d", "verbose">>

\* var defaultPrintFlags: fs.PrintDefaults(), one line per defined flag.
defaultPrintFlags(fs) ==
    LET ns == SelectSeq(FlagOrder, LAMBDA n : n \in DOMAIN fs.formal)
    IN  [i \in 1..Len(ns) |->
            Line("flag", ns[i], <<fs.formal[ns[i]].type, fs.formal[ns[i]].def>>)]

\* ------------------------------------------------- contexts and the path
\* A []CommandInfo is a Go slice: a backing array (an index into arrays, 0
\* for nil), a length and a capacity.  A context is an index into ctxs.

ZeroInfo == [Name |-> "", Command |-> "nil", FlagSet |-> 0]

NilSlice == [arr |-> 0, len |-> 0, cap |-> 0]

\* The capacity append gives a full slice of 40-byte elements: 1, 2, 4, 8.
GrowCap(cap) == IF cap = 0 THEN 1 ELSE cap + cap

\* The elements of a slice.
Elems(arrays, s) == IF s.len = 0 THEN <<>> ELSE SubSeq(arrays[s.arr], 1, s.len)

\* append(s, info): in place when the capacity allows, else into a new array.
AppendInfo(arrays, s, info) ==
    IF s.len < s.cap
    THEN [arrays |-> [arrays EXCEPT ![s.arr][s.len + 1] = info],
          slice |-> [s EXCEPT !.len = s.len + 1]]
    ELSE LET c == GrowCap(s.cap)
             na == [i \in 1..c |->
                      IF i <= s.len THEN arrays[s.arr][i]
                      ELSE IF i = s.len + 1 THEN info ELSE ZeroInfo]
         IN  [arrays |-> Append(arrays, na),
              slice |-> [arr |-> Len(arrays) + 1, len |-> s.len + 1, cap |-> c]]

\* func ContextCommandsInfo(ctx context.Context) []CommandInfo, on the heap h
\* = [arrays, ctxs, flagSets, infos, runtime]
ContextCommandsInfo(h, c) == Elems(h.arrays, h.ctxs[c].cs)

\* WithCommandInfo with a slip: the entry is written over the last one of the
\* parent's path instead of being appended.
WithCommandInfoInPlace(h, c, info) ==
    LET cs == h.ctxs[c].cs
    IN  IF cs.len = 0
        THEN LET r == AppendInfo(h.arrays, cs, info)
             IN  [h EXCEPT !.arrays = r.arrays,
                           !.ctxs = Append(@, [parent |-> c, cs |-> r.slice])]
        ELSE [h EXCEPT !.arrays[cs.arr][cs.len] = info,
                       !.ctxs = Append(@, [parent |-> c, cs |-> cs])]

\* func WithCommandInfo(ctx, info) context.Context: the heap with the new
\* context, which is the last of ctxs.
WithCommandInfo(h, c, info) ==
    LET r == AppendInfo(h.arrays, h.ctxs[c].cs, info)
    IN  [h EXCEPT !.arrays = r.arrays,
                  !.ctxs = Append(@, [parent |-> c, cs |-> r.slice])]

\* func withRuntimeInfo(ctx, r) context.Context: a new context that carries
\* the *runtimeInfo r (an index into infos) and inherits the path of ctx.
withRuntimeInfo(h, c, r) ==
    [h EXCEPT !.ctxs = Append(@, [parent |-> c, cs |-> h.ctxs[c].cs]),
              !.runtime = (Len(h.ctxs) + 1 :> r) @@ @]

\* func contextRuntimeInfo(ctx) *runtimeInfo: the value nearest to ctx on its
\* chain of parents; 0 is nil, on which the function panics.
RECURSIVE contextRuntimeInfo(_, _)
contextRuntimeInfo(h, c) ==
    IF c = 0 THEN 0
    ELSE IF c \in DOMAIN h.runtime THEN h.runtime[c]
    ELSE contextRuntimeInfo(h, h.ctxs[c].parent)

contextRuntimeInfoPanics(h, c) == contextRuntimeInfo(h, c) = 0

\* func withCommandInfo(ctx, info) context.Context: the entry is appended to
\* the runtime info's commands, then to the exported path.
withCommandInfo(h, c, info) ==
    LET r == contextRuntimeInfo(h, c)
        a == AppendInfo(h.arrays, h.infos[r].commands, info)
        h1 == [h EXCEPT !.arrays = a.arrays, !.infos[r].commands = a.slice]
    IN  WithCommandInfo(h1, c, info)

\* func contextCommandsInfo(ctx) []CommandInfo: the runtime info's commands.
contextCommandsInfo(h, c) ==
    Elems(h.arrays, h.infos[contextRuntimeInfo(h, c)].commands)

\* setup with a slip: the flag set is created for every command, whether or
\* not it is a FlagDefiner.
setupAlwaysFlagSet(h, c, cmd, nm) ==
    LET fs == Len(h.flagSets) + 1
        h1 == [h EXCEPT !.flagSets = Append(@, newFlagSet(nm, defineFlags(cmd)))]
        h2 == WithCommandInfo(h1, c, [Name |-> nm, Command |-> cmd, FlagSet |-> fs])
    IN  [h |-> h2, ctx |-> Len(h2.ctxs), fs |-> fs]

\* setup with a slip: the flags are defined into the store of the entry
\* before, when there is one, and the new entry shares it.
setupSharedFlagSet(h, c, cmd, nm) ==
    LET cs == ContextCommandsInfo(h, c)
        shared == IF cs = <<>> THEN 0 ELSE cs[Len(cs)].FlagSet
        fs == IF ~IsFlagDefiner(cmd) THEN 0
              ELSE IF shared # 0 THEN shared ELSE Len(h.flagSets) + 1
        h1 == IF fs = 0 THEN h
              ELSE IF shared # 0
              THEN [h EXCEPT !.flagSets[fs].formal = defineFlags(cmd) @@ @]
              ELSE [h EXCEPT !.flagSets = Append(@, newFlagSet(nm, defineFlags(cmd)))]
        h2 == WithCommandInfo(h1, c, [Name |-> nm, Command |-> cmd, FlagSet |-> fs])
    IN  [h |-> h2, ctx |-> Len(h2.ctxs), fs |-> fs]

\* setup with a slip: the entry is made before the flag set is assigned, so
\* it carries none.
setupNoFlagSet(h, c, cmd, nm) ==
    LET fs == IF IsFlagDefiner(cmd) THEN Len(h.flagSets) + 1 ELSE 0
        h1 == IF IsFlagDefiner(cmd)
              THEN [h EXCEPT !.flagSets = Append(@, newFlagSet(nm, defineFlags(cmd)))]
              ELSE h
        h2 == WithCommandInfo(h1, c, [Name |-> nm, Command |-> cmd, FlagSet |-> 0])
    IN  [h |-> h2, ctx |-> Len(h2.ctxs), fs |-> fs]

\* func setup(ctx, cmd, name) (context.Context, *flag.FlagSet)
setup(h, c, cmd, nm) ==
    LET fs == IF IsFlagDefiner(cmd) THEN Len(h.flagSets) + 1 ELSE 0
        h1 == IF IsFlagDefiner(cmd)
              THEN [h EXCEPT !.flagSets = Append(@, newFlagSet(nm, defineFlags(cmd)))]
              ELSE h
        h2 == WithCommandInfo(h1, c, [Name |-> nm, Command |-> cmd, FlagSet |-> fs])
    IN  [h |-> h2, ctx |-> Len(h2.ctxs), fs |-> fs]

\* func commandPath(ctx) string: the names of the path, joined by spaces.
commandPath(h, c) ==
    LET cs == ContextCommandsInfo(h, c) IN [i \in 1..Len(cs) |-> cs[i].Name]

\* func lastCommandInfo(ctx) CommandInfo panics on an empty path.
lastCommandInfoPanics(h, c) == Len(ContextCommandsInfo(h, c)) = 0

lastCommandInfo(h, c) ==
    LET cs == ContextCommandsInfo(h, c) IN cs[Len(cs)]

\* func (r *Runner) printUsage(ctx, dst)
printUsage(h, c) ==
    LET cmd == lastCommandInfo(h, c).Command
    IN  (IF name(cmd) # "" THEN <<Line("name", name(cmd), <<>>)>> ELSE <<>>)
        \o <<Line("Usage:", "", <<>>)>>
        \o <<Line("synopsis", synopsis(cmd), commandPath(h, c))>>
        \o description(cmd)

\* func (r *Runner) printFlags(ctx, dst)
printFlags(h, c) ==
    LET info == lastCommandInfo(h, c)
    IN  IF info.FlagSet = 0 THEN <<>>
        ELSE LET buf == defaultPrintFlags(h.flagSets[info.FlagSet])
             IN  IF Len(buf) = 0 THEN <<>>
                 ELSE <<Line("Options:", "", <<>>)>> \o buf

\* ------------------------------------------------------ the dispatch engine

\* func (r *Runner) parseFlags: DoParseFlags is nil, so defaultParseFlags.
parseFlags(fs, as) == defaultParseFlags(fs, as)

\* run with a slip: cmd.Run is given the arguments as they came, not what the
\* parse left.
runKeepsArgs(h, c, cmd, nm, as) ==
    LET s == setup(h, c, cmd, nm)
    IN  IF s.fs # 0
        THEN LET p == parseFlags(s.h.flagSets[s.fs], as)
                 e == IF p.err = flagErrHelp THEN errHelp ELSE p.err
             IN  [h |-> [s.h EXCEPT !.flagSets[s.fs] = p.fs], ctx |-> s.ctx,
                  args |-> as, err |-> e, invoke |-> e = NilErr]
        ELSE [h |-> s.h, ctx |-> s.ctx, args |-> as, err |-> NilErr, invoke |-> TRUE]

\* func run(ctx, cmd, name, args) error, up to the call of cmd.Run: the heap
\* and context after setup, the arguments left, whether cmd.Run is invoked
\* and, when it is not, the error returned.
run(h, c, cmd, nm, as) ==
    LET s == setup(h, c, cmd, nm)
    IN  IF s.fs # 0
        THEN LET p == parseFlags(s.h.flagSets[s.fs], as)
                 e == IF p.err = flagErrHelp THEN errHelp ELSE p.err
             IN  [h |-> [s.h EXCEPT !.flagSets[s.fs] = p.fs], ctx |-> s.ctx,
                  args |-> p.args, err |-> e, invoke |-> e = NilErr]
        ELSE [h |-> s.h, ctx |-> s.ctx, args |-> as, err |-> NilErr, invoke |-> TRUE]

\* SkipHelp with a slip: only the first help token is dropped (an if without
\* the goto), so a second one is taken for a name.
SkipHelpOnce(help, as) ==
    IF as # <<>> /\ Head(as) = "help"
    THEN [help |-> TRUE, args |-> Tail(as)]
    ELSE [help |-> help, args |-> as]

RECURSIVE SkipHelp(_, _)
\* The loop of Commands.Run over leading "help" tokens (label top).
SkipHelp(help, as) ==
    IF as # <<>> /\ Head(as) = "help"
    THEN SkipHelp(TRUE, Tail(as))
    ELSE [help |-> help, args |-> as]

\* UnknownCommand with a slip: the message leaves the command path out.
UnknownCommandNoPath(path, nm) ==
    Exitf(2, <<nm, ": unknown command", "Run", "help", "for help.">>)

\* The usage error of Commands.Run for an unknown name: the format
\* "`%[1]s %[2]s`: unknown command\nRun `%[1]s help` for help." as words.
UnknownCommand(path, nm) ==
    Exitf(2, path \o <<nm, ": unknown command", "Run">> \o path \o <<"help", "for help.">>)

\* Commands.Run with a slip: the sub-command is given args, its own name
\* included, instead of args[1:].
CommandsRunKeepsName(h, c, table, as) ==
    LET st == SkipHelp(FALSE, as)
        nm == Head(st.args)
    IN  IF st.args = <<>>
        THEN [next |-> FALSE, err |-> errHelp, h |-> h, cmd |-> "nil", name |-> "", args |-> <<>>]
        ELSE IF nm \notin DOMAIN Commands(table)
        THEN [next |-> FALSE, err |-> UnknownCommand(commandPath(h, c), nm), h |-> h,
              cmd |-> "nil", name |-> nm, args |-> st.args]
        ELSE IF st.help
        THEN [next |-> FALSE, err |-> errHelp, h |-> setup(h, c, Commands(table)[nm], nm).h,
              cmd |-> Commands(table)[nm], name |-> nm, args |-> st.args]
        ELSE [next |-> TRUE, err |-> NilErr, h |-> h,
              cmd |-> Commands(table)[nm], name |-> nm, args |-> st.args]

\* Commands.Run with a slip: the sub-command is run under the table's own
\* name, the last of the path, instead of the name looked up.
CommandsRunParentName(h, c, table, as) ==
    LET st == SkipHelp(FALSE, as)
        nm == Head(st.args)
    IN  IF st.args = <<>>
        THEN [next |-> FALSE, err |-> errHelp, h |-> h, cmd |-> "nil", name |-> "", args |-> <<>>]
        ELSE IF nm \notin DOMAIN Commands(table)
        THEN [next |-> FALSE, err |-> UnknownCommand(commandPath(h, c), nm), h |-> h,
              cmd |-> "nil", name |-> nm, args |-> st.args]
        ELSE IF st.help
        THEN [next |-> FALSE, err |-> errHelp, h |-> setup(h, c, Commands(table)[nm], nm).h,
              cmd |-> Commands(table)[nm], name |-> nm, args |-> st.args]
        ELSE [next |-> TRUE, err |-> NilErr, h |-> h,
              cmd |-> Commands(table)[nm], name |-> lastCommandInfo(h, c).Name,
              args |-> Tail(st.args)]

\* Commands.Run with a slip: no arguments are looked up as the empty name,
\* which no table holds.
CommandsRunEmptyName(h, c, table, as) ==
    LET st == SkipHelp(FALSE, as)
        nm == IF st.args = <<>> THEN "" ELSE Head(st.args)
    IN  IF nm \notin DOMAIN Commands(table)
        THEN [next |-> FALSE, err |-> Exitf(2, commandPath(h, c) \o <<nm, ": unknown command">>),
              h |-> h, cmd |-> "nil", name |-> nm, args |-> st.args]
        ELSE IF st.help
        THEN [next |-> FALSE, err |-> errHelp, h |-> setup(h, c, Commands(table)[nm], nm).h,
              cmd |-> Commands(table)[nm], name |-> nm, args |-> st.args]
        ELSE [next |-> TRUE, err |-> NilErr, h |-> h,
              cmd |-> Commands(table)[nm], name |-> nm, args |-> Tail(st.args)]

\* func (c Commands) Run(ctx, args) error: either an error is returned
\* (next = FALSE) or run(ctx, cmd, name, args[1:]) is called (next = TRUE).
CommandsRun(h, c, table, as) ==
    LET st == SkipHelp(FALSE, as)
        nm == Head(st.args)
    IN  IF st.args = <<>>
        THEN [next |-> FALSE, err |-> errHelp, h |-> h, cmd |-> "nil", name |-> "", args |-> <<>>]
        ELSE IF nm \notin DOMAIN Commands(table)
        THEN [next |-> FALSE, err |-> UnknownCommand(commandPath(h, c), nm), h |-> h,
              cmd |-> "nil", name |-> nm, args |-> st.args]
        ELSE IF st.help
        THEN [next |-> FALSE, err |-> errHelp, h |-> setup(h, c, Commands(table)[nm], nm).h,
              cmd |-> Commands(table)[nm], name |-> nm, args |-> st.args]
        ELSE [next |-> TRUE, err |-> NilErr, h |-> h,
              cmd |-> Commands(table)[nm], name |-> nm, args |-> Tail(st.args)]

\* ReturnThrough with a slip: a table wraps the error of its sub-command
\* with the text of its own.
ReturnThroughWrapped(fn, e) ==
    IF fn = "Commands.Run" /\ e # NilErr
    THEN ErrorNew(<<"command failed">> \o e.msg)
    ELSE e

\* What a call returns when its callee returned e: run ends with return
\* cmd.Run(ctx, args), Commands.Run with return run(ctx, cmd, name, args[1:]),
\* Container.Run with return c.Command.Run(ctx, args).
ReturnThrough(fn, e) ==
    CASE fn = "run" -> e
      [] fn = "Commands.Run" -> e
      [] fn = "Container.Run" -> e

\* What a leaf command's Run may return: nil, an exit-code error, a plain
\* error, or ctx.Err() once the context is cancelled.
LeafResults(isCancelled) ==
    {NilErr, Exitf(3, <<"failed">>), ErrorNew(<<"boom">>)}
        \cup (IF isCancelled THEN {ErrorNew(<<"context canceled">>)} ELSE {})

\* ------------------------------------------------------------ Runner.Main

\* var DefaultRunner
DefaultRunner == [TermSignals |-> Signals, ForceTerm |-> 0]

\* The Runner configurations explored.  ForceTerm is documented in terms of
\* the signals of TermSignals, so it is set only with some.
Runners ==
    {r \in [TermSignals : SUBSET Signals, ForceTerm : 0..MaxForceTerm] :
        r.ForceTerm > 0 => r.TermSignals # {}}

\* exe of Runner.Main: name(cmd), else path.Base(os.Args[0]).
Exe(c) == IF name(c) = "" THEN "prog" ELSE name(c)

\* MainOutcome with a slip: the exit-code error is looked at before the
\* cancellation.
MainOutcomeExitFirst(e, isCancelled, h, c) ==
    IF e = errHelp
    THEN IF lastCommandInfoPanics(h, c)
         THEN [kind |-> "panic", code |-> 2, out |-> <<>>]
         ELSE [kind |-> "exit", code |-> 0, out |-> printUsage(h, c) \o printFlags(h, c)]
    ELSE IF IsExitError(e)
    THEN [kind |-> "exit", code |-> e.code, out |-> <<Line("error", "", e.msg)>>]
    ELSE IF isCancelled
    THEN [kind |-> "exit", code |-> 130, out |-> <<>>]
    ELSE IF e # NilErr
    THEN [kind |-> "exit", code |-> 1, out |-> <<Line("error", "", e.msg)>>]
    ELSE [kind |-> "return", code |-> 0, out |-> <<>>]

\* The outcome resolution of Runner.Main after run returned e, with isCancelled
\* = (baseCtx.Err() != nil) and c the context Main holds.
MainOutcome(e, isCancelled, h, c) ==
    IF e = errHelp
    THEN IF lastCommandInfoPanics(h, c)
         THEN [kind |-> "panic", code |-> 2, out |-> <<>>]
         ELSE [kind |-> "exit", code |-> 0, out |-> printUsage(h, c) \o printFlags(h, c)]
    ELSE IF isCancelled
    THEN [kind |-> "exit", code |-> 130, out |-> <<>>]
    ELSE IF IsExitError(e)
    THEN [kind |-> "exit", code |-> e.code, out |-> <<Line("error", "", e.msg)>>]
    ELSE IF e # NilErr
    THEN [kind |-> "exit", code |-> 1, out |-> <<Line("error", "", e.msg)>>]
    ELSE [kind |-> "return", code |-> 0, out |-> <<>>]

\* -------------------------------------------------------------- listeners

\* trapSeqCount with a slip: the signals of every kind are counted together.
trapSeqCountShared(count, n, sig) ==
    LET m == count["SIGINT"] + count["SIGTERM"] + 1
    IN  IF m # n
        THEN [cnt |-> [count EXCEPT ![sig] = @ + 1], fn |-> FALSE]
        ELSE [cnt |-> [s \in DOMAIN count |-> 0], fn |-> TRUE]

\* The body of trapSeq's loop for one received signal: the counters, and
\* whether fn is called.
trapSeqCount(count, n, sig) ==
    LET m == count[sig] + 1
    IN  IF m # n
        THEN [cnt |-> [count EXCEPT ![sig] = m], fn |-> FALSE]
        ELSE [cnt |-> [count EXCEPT ![sig] = 0], fn |-> TRUE]

\* signal.Notify's send to a channel of capacity cap: it never blocks, a
\* signal arriving at a full channel is dropped.
Notify(ch, cap, sig) == IF Len(ch) < cap THEN Append(ch, sig) ELSE ch

\* ------------------------------------------------------------------ state

VARIABLES
    osArgs,     \* os.Args[1:]
    rootCmd,    \* the command given to Runner.Main
    runner,     \* the Runner: TermSignals and ForceTerm
    pc,         \* "run": run(ctx, cmd, cmdName, args) is being called;
                \* "call": cmd.Run(ctx, args) is being called; "running": a
                \* leaf's Run executes; "ret": err is being returned, to the
                \* calls of stack and then to Main;
                \* "exited": the process is gone
    cmd,        \* the command of the current dispatch step
    cmdName,    \* the name it is dispatched under
    args,       \* the arguments of the current call
    ctx,        \* the context of the current call
    stack,      \* the calls awaiting the return of the current one, the
                \* innermost last: "run", "Commands.Run", "Container.Run"
    heap,       \* arrays, ctxs (the contexts created), flagSets
    err,        \* the error run returned to Main
    calls,      \* the Run invocations so far: command, arguments, context
    exit,       \* how the process ended: kind and exit code
    stdout,     \* what Main wrote
    cancelled,  \* baseCtx.Err() != nil
    trapCh,     \* the channel of withTrapCancel
    trapDone,   \* its goroutine has cancelled and called signal.Stop
    cancels,    \* how many times that goroutine called cancel
    seqCh,      \* the channel of trapSeq
    cnt,        \* the counters of trapSeq
    sent        \* the signals sent to the process so far, per kind

vars == <<osArgs, rootCmd, runner, pc, cmd, cmdName, args, ctx, stack, heap, err, calls,
          exit, stdout, cancelled, trapCh, trapDone, cancels, seqCh, cnt, sent>>

input == <<osArgs, rootCmd, runner>>
frame == <<cmd, cmdName, args, ctx, stack>>
listeners == <<cancelled, trapCh, trapDone, cancels, seqCh, cnt, sent>>

\* The context Runner.Main holds: withRunner(baseCtx, r).
MainCtx == 1

\* Runner.Main up to its call of run: the listeners are installed, ctx is the
\* context with the Runner and no commands.  withRunner stores the *Runner
\* itself: no runtimeInfo is allocated (infos) and no context carries one
\* (runtime).
Init ==
    /\ osArgs \in Argvs
    /\ rootCmd \in Roots
    /\ runner \in Runners
    /\ osArgs \notin SigArgvs => runner = DefaultRunner
    /\ pc = "run"
    /\ cmd = rootCmd
    /\ cmdName = Exe(rootCmd)
    /\ args = osArgs
    /\ ctx = MainCtx
    /\ stack = <<>>
    /\ heap = [arrays |-> <<>>, ctxs |-> <<[parent |-> 0, cs |-> NilSlice]>>,
               flagSets |-> <<>>, infos |-> <<>>, runtime |-> <<>>]
    /\ err = NilErr
    /\ calls = <<>>
    /\ exit = [kind |-> "none", code |-> 0]
    /\ stdout = <<>>
    /\ cancelled = FALSE
    /\ trapCh = <<>>
    /\ trapDone = FALSE
    /\ cancels = 0
    /\ seqCh = <<>>
    /\ cnt = [s \in Signals |-> 0]
    /\ sent = [s \in Signals |-> 0]

\* run(ctx, cmd, name, args): setup, the parse, and either the return of the
\* parse error or the call of cmd.Run.
Run ==
    /\ pc = "run"
    /\ LET r == run(heap, ctx, cmd, cmdName, args)
       IN  /\ heap' = r.h
           /\ ctx' = r.ctx
           /\ args' = r.args
           /\ pc' = IF r.invoke THEN "call" ELSE "ret"
           /\ stack' = IF r.invoke THEN Append(stack, "run") ELSE stack
           /\ err' = r.err
    /\ UNCHANGED <<input, cmd, cmdName, calls, exit, stdout, listeners>>

\* Commands.Run(ctx, args)
TableRun ==
    /\ pc = "call"
    /\ Kind(cmd) = "Commands"
    /\ LET r == CommandsRun(heap, ctx, cmd, args)
       IN  /\ heap' = r.h
           /\ pc' = IF r.next THEN "run" ELSE "ret"
           /\ stack' = IF r.next THEN Append(stack, "Commands.Run") ELSE stack
           /\ err' = r.err
           /\ cmd' = IF r.next THEN r.cmd ELSE cmd
           /\ cmdName' = IF r.next THEN r.name ELSE cmdName
           /\ args' = IF r.next THEN r.args ELSE args
    /\ calls' = Append(calls, [cmd |-> cmd, args |-> args, ctx |-> ctx])
    /\ UNCHANGED <<input, ctx, exit, stdout, listeners>>

\* Container.Run(ctx, args): c.Command.Run(ctx, args)
ContainerRun ==
    /\ pc = "call"
    /\ Kind(cmd) = "Container"
    /\ cmd' = Wrapped(cmd)
    /\ stack' = Append(stack, "Container.Run")
    /\ calls' = Append(calls, [cmd |-> cmd, args |-> args, ctx |-> ctx])
    /\ UNCHANGED <<input, pc, cmdName, args, ctx, heap, err, exit, stdout, listeners>>

\* A leaf command's Run begins.
LeafRun ==
    /\ pc = "call"
    /\ Kind(cmd) = "leaf"
    /\ pc' = "running"
    /\ calls' = Append(calls, [cmd |-> cmd, args |-> args, ctx |-> ctx])
    /\ UNCHANGED <<input, frame, heap, err, exit, stdout, listeners>>

\* A leaf command's Run returns e.
LeafReturn(e) ==
    /\ pc = "running"
    /\ pc' = "ret"
    /\ err' = e
    /\ UNCHANGED <<input, frame, heap, calls, exit, stdout, listeners>>

\* The innermost call awaiting a return gets err from its callee and returns
\* in its turn.
Unwind ==
    /\ pc = "ret"
    /\ stack # <<>>
    /\ err' = ReturnThrough(stack[Len(stack)], err)
    /\ stack' = SubSeq(stack, 1, Len(stack) - 1)
    /\ UNCHANGED <<input, pc, cmd, cmdName, args, ctx, heap, calls, exit, stdout, listeners>>

\* Runner.Main after run returned: the outcome is resolved and the process
\* ends.  The deferred cancel runs when Main returns.
MainResolve ==
    /\ pc = "ret"
    /\ stack = <<>>
    /\ LET o == MainOutcome(err, cancelled, heap, MainCtx)
       IN  /\ exit' = [kind |-> o.kind, code |-> o.code]
           /\ stdout' = o.out
           /\ cancelled' = (cancelled \/ (o.kind = "return" /\ runner.TermSignals # {}))
    /\ pc' = "exited"
    /\ UNCHANGED <<input, frame, heap, err, calls, trapCh, trapDone, cancels, seqCh, cnt, sent>>

\* The signals relayed to the channel of withTrapCancel, until signal.Stop.
TrapSet == IF trapDone THEN {} ELSE runner.TermSignals

\* The signals relayed to the channel of trapSeq.
SeqSet == IF runner.ForceTerm > 0 THEN runner.TermSignals ELSE {}

SentTotal == sent["SIGINT"] + sent["SIGTERM"]

\* The process receives a signal it traps: signal.Notify relays it to the
\* channels registered for it.
Signal(s) ==
    /\ pc # "exited"
    /\ osArgs \in SigArgvs
    /\ SentTotal < MaxSignals
    /\ s \in TrapSet \cup SeqSet
    /\ sent' = [sent EXCEPT ![s] = @ + 1]
    /\ trapCh' = IF s \in TrapSet
                 THEN Notify(trapCh, Cardinality(runner.TermSignals), s)
                 ELSE trapCh
    /\ seqCh' = IF s \in SeqSet
                THEN Notify(seqCh, Cardinality(runner.TermSignals), s)
                ELSE seqCh
    /\ UNCHANGED <<input, pc, frame, heap, err, calls, exit, stdout, cancelled,
                   trapDone, cancels, cnt>>

\* TrapCancel with a slip: the goroutine keeps receiving, and cancels for
\* every signal.
TrapCancelLoop ==
    /\ pc # "exited"
    /\ runner.TermSignals # {}
    /\ ~trapDone
    /\ trapCh # <<>>
    /\ trapCh' = Tail(trapCh)
    /\ cancelled' = TRUE
    /\ cancels' = cancels + 1
    /\ UNCHANGED <<input, pc, frame, heap, err, calls, exit, stdout, trapDone, seqCh, cnt, sent>>

\* The goroutine of withTrapCancel: <-ch, cancel(), signal.Stop(ch).
TrapCancel ==
    /\ pc # "exited"
    /\ runner.TermSignals # {}
    /\ ~trapDone
    /\ trapCh # <<>>
    /\ trapCh' = Tail(trapCh)
    /\ cancelled' = TRUE
    /\ cancels' = cancels + 1
    /\ trapDone' = TRUE
    /\ UNCHANGED <<input, pc, frame, heap, err, calls, exit, stdout, seqCh, cnt, sent>>

\* TrapSeq with a slip: the listener writes the signal's name into the entry
\* of the command that runs, through the context it was given.
TrapSeqTouchesPath ==
    /\ pc # "exited"
    /\ runner.ForceTerm > 0
    /\ seqCh # <<>>
    /\ seqCh' = Tail(seqCh)
    /\ LET r == trapSeqCount(cnt, runner.ForceTerm, Head(seqCh))
           cs == heap.ctxs[ctx].cs
       IN  /\ cnt' = r.cnt
           /\ pc' = IF r.fn THEN "exited" ELSE pc
           /\ exit' = IF r.fn THEN [kind |-> "forced", code |-> 130] ELSE exit
           /\ heap' = IF cs.len = 0 THEN heap
                      ELSE [heap EXCEPT !.arrays[cs.arr][cs.len].Name = Head(seqCh)]
    /\ UNCHANGED <<input, frame, err, calls, stdout, cancelled, trapCh,
                   trapDone, cancels, sent>>

\* The goroutine of trapSeq: one iteration of its loop; fn is os.Exit(130).
TrapSeq ==
    /\ pc # "exited"
    /\ runner.ForceTerm > 0
    /\ seqCh # <<>>
    /\ seqCh' = Tail(seqCh)
    /\ LET r == trapSeqCount(cnt, runner.ForceTerm, Head(seqCh))
       IN  /\ cnt' = r.cnt
           /\ pc' = IF r.fn THEN "exited" ELSE pc
           /\ exit' = IF r.fn THEN [kind |-> "forced", code |-> 130] ELSE exit
    /\ UNCHANGED <<input, frame, heap, err, calls, stdout, cancelled, trapCh,
                   trapDone, cancels, sent>>

Next ==
    \/ Run
    \/ TableRun
    \/ ContainerRun
    \/ LeafRun
    \/ \E e \in LeafResults(cancelled) : LeafReturn(e)
    \/ Unwind
    \/ MainResolve
    \/ \E s \in Signals : Signal(s)
    \/ TrapCancel
    \/ TrapSeq

Spec == Init /\ [][Next]_vars

\* The invocations during which signals are sent, with the Go scheduler
\* running a listener goroutine whose channel holds a signal.
SigInit == Init /\ osArgs \in SigArgvs

SigSpec == SigInit /\ [][Next]_vars /\ WF_vars(TrapCancel) /\ WF_vars(TrapSeq)

\* ------------------------------------------------------------- properties

\* The command path of a context.
PathOf(c) == ContextCommandsInfo(heap, c)

Last(q) == q[Len(q)]

IsPrefix(p, q) == Len(p) <= Len(q) /\ SubSeq(q, 1, Len(p)) = p

IsSuffix(p, q) == Len(p) <= Len(q) /\ SubSeq(q, Len(q) - Len(p) + 1, Len(q)) = p

\* The calls of a table's Run that went on to run a sub-command: the next
\* call is that sub-command's Run.
Dispatches == {k \in 1..(Len(calls) - 1) : Kind(calls[k].cmd) = "Commands"}

\* The name a table call looks up: the first token after the leading "help"
\* tokens ("" when there is none).
RECURSIVE LookedUp(_)
LookedUp(as) ==
    IF as = <<>> THEN "" ELSE IF Head(as) = "help" THEN LookedUp(Tail(as)) ELSE Head(as)

\* The tokens a successful parse consumed: given minus what is left.
Consumed(given, left) == SubSeq(given, 1, Len(given) - Len(left))

\* The store holds what a successful parse of the consumed tokens sets: the
\* tokens are pairs of a defined flag and its value, each flag holds the last
\* value given for it (its default when none), and what is left starts with
\* no flag.
ParsedInto(store, given, left) ==
    LET used == Consumed(given, left)
        At(n) == {i \in 1..Len(used) : i % 2 = 1 /\ FlagOf(used[i]) = n}
    IN  /\ IsSuffix(left, given)
        /\ left = <<>> \/ ~IsFlagTok(Head(left))
        /\ Len(used) % 2 = 0
        /\ \A i \in 1..Len(used) :
              i % 2 = 1 => IsFlagTok(used[i]) /\ FlagOf(used[i]) \in DOMAIN store.formal
        /\ \A n \in DOMAIN store.formal :
              /\ n \in store.actual <=> At(n) # {}
              /\ store.formal[n].value =
                    IF At(n) = {} THEN store.formal[n].def
                    ELSE used[(CHOOSE i \in At(n) : \A j \in At(n) : j <= i) + 1]

\* What every dispatch of a found name does, whatever the sub-command: the
\* step is appended to the path and the sub-command's Run is invoked once.
StepAppended(k) ==
    LET t == calls[k]
        u == calls[k + 1]
        nm == Head(t.args)
        e == Last(PathOf(u.ctx))
    IN  /\ nm \in DOMAIN Commands(t.cmd)
        /\ u.cmd = Commands(t.cmd)[nm]
        /\ PathOf(u.ctx) = Append(PathOf(t.ctx), e)
        /\ e.Name = nm
        /\ e.Command = u.cmd
        /\ Cardinality({j \in 1..Len(calls) : calls[j].ctx = u.ctx /\ calls[j].cmd = u.cmd}) = 1

\* The step has a flag store of its own, holding the sub-command's flags and
\* the values parsed from the arguments after the name; Run got the rest.
StepParsed(k) ==
    LET t == calls[k]
        u == calls[k + 1]
        p == PathOf(u.ctx)
        e == Last(p)
    IN  /\ e.FlagSet # 0
        /\ \A i \in 1..(Len(p) - 1) : p[i].FlagSet # e.FlagSet
        /\ DOMAIN heap.flagSets[e.FlagSet].formal = DOMAIN defineFlags(u.cmd)
        /\ ParsedInto(heap.flagSets[e.FlagSet], Tail(t.args), u.args)

\* The scenario of the specification: {sleep: ...} invoked with sleep -d 2s.
SleepExample ==
    (rootCmd = "root" /\ osArgs = <<"sleep", "-d", "2s">> /\ Len(calls) >= 2) =>
        /\ calls[2].cmd = "sleep"
        /\ calls[2].args = <<>>
        /\ heap.flagSets[Last(PathOf(calls[2].ctx)).FlagSet].formal["d"].value = "2s"

\* C1 as stated: for a name present in the table and no preceding help token,
\* Commands.Run creates a fresh flag store for the sub-command, populates it
\* through the sub-command's flag definition, parses the arguments after the
\* name against it, appends the step to the path and invokes the
\* sub-command's Run exactly once with the leftover non-flag arguments.
C1_AlwaysParsed ==
    /\ \A k \in Dispatches : StepAppended(k) /\ StepParsed(k)
    /\ SleepExample

\* C1, amended: the flag store is created, populated and parsed only for a
\* sub-command that has the flag-definition capability; for one without it the
\* path entry has no flag store and Run receives every argument after the
\* name, unparsed.  In both cases the step is appended to the path and Run is
\* invoked exactly once.
C1_Dispatch ==
    /\ \A k \in Dispatches :
          /\ StepAppended(k)
          /\ IF IsFlagDefiner(calls[k + 1].cmd)
             THEN StepParsed(k)
             ELSE /\ Last(PathOf(calls[k + 1].ctx)).FlagSet = 0
                  /\ calls[k + 1].args = Tail(calls[k].args)
    /\ SleepExample

\* C1's case: sleep -d 2s has reached the Run of sleep.
C1_Witness ==
    /\ rootCmd = "root"
    /\ osArgs = <<"sleep", "-d", "2s">>
    /\ Len(calls) = 2
    /\ calls[2].cmd = "sleep"
    /\ pc = "running"

\* The calls of a table's Run.
TableCalls == {k \in 1..Len(calls) : Kind(calls[k].cmd) = "Commands"}

\* run has returned to Main, or the process has ended after it did.
Returned == (pc = "ret" /\ stack = <<>>) \/ (pc = "exited" /\ exit.kind # "forced")

\* C2: for every command table, Commands.Run invoked with zero remaining
\* arguments returns the help-request sentinel, never the unknown-command
\* error, and runs no sub-command.
C2_NoArgsIsHelp ==
    \A k \in TableCalls :
        calls[k].args = <<>> =>
            /\ k = Len(calls)
            /\ pc \in {"ret", "exited"}
            /\ err = errHelp
            /\ ~IsExitError(err)
            /\ \A c \in 1..Len(heap.ctxs) : heap.ctxs[c].parent # calls[k].ctx

\* C2's case: a nested table (reached through a) was run with no arguments.
C2_Witness ==
    /\ Len(calls) = 2
    /\ calls[2].cmd = "tableB"
    /\ calls[2].args = <<>>
    /\ pc = "ret"

\* The names of the path when call k is made, from the arguments: the
\* program's name, then the name each earlier table call looked up.
NamesBefore(k) ==
    LET ts == SelectSeq([j \in 1..(k - 1) |-> j], LAMBDA j : j \in TableCalls)
    IN  <<Exe(rootCmd)>> \o [i \in 1..Len(ts) |-> LookedUp(calls[ts[i]].args)]

HelpCalls ==
    {k \in TableCalls :
        /\ calls[k].args # <<>>
        /\ Head(calls[k].args) = "help"
        /\ LookedUp(calls[k].args) \in DOMAIN Commands(calls[k].cmd)}

\* C4: for help <name> with name in the table, the step (name, command) is
\* registered into the command path without parsing the sub-command's
\* arguments and without invoking its Run, the help-request sentinel is
\* returned, and the last path entry the Runner uses to render usage is that
\* sub-command's entry.
C4_HelpRegistersStep ==
    \A k \in HelpCalls :
        LET nm == LookedUp(calls[k].args)
        IN  Returned =>
                /\ k = Len(calls)
                /\ err = errHelp
                /\ \A f \in 1..Len(heap.flagSets) :
                      heap.flagSets[f].name = nm => heap.flagSets[f].actual = {}
                /\ ~lastCommandInfoPanics(heap, MainCtx)
                /\ lastCommandInfo(heap, MainCtx).Name = nm
                /\ lastCommandInfo(heap, MainCtx).Command = Commands(calls[k].cmd)[nm]

\* The usage text of a command reached under the given path names with the
\* given flags: its name if any, Usage:, the path and synopsis, its
\* description if any, and the options if any.
UsageText(names, c, formal) ==
    (IF name(c) # "" THEN <<Line("name", name(c), <<>>)>> ELSE <<>>)
    \o <<Line("Usage:", "", <<>>), Line("synopsis", synopsis(c), names)>>
    \o description(c)
    \o (IF DOMAIN formal = {} THEN <<>>
        ELSE <<Line("Options:", "", <<>>)>> \o defaultPrintFlags([formal |-> formal]))

\* C5: for every name present in a table, help <name> and <name> -h both end
\* in the help outcome and render the same usage text, whatever capabilities
\* the command under that name has: either invocation exits 0 having written
\* the usage of that command.
C5_HelpFormsAgree ==
    \A n \in DOMAIN Commands(rootCmd) :
        (/\ Kind(rootCmd) = "Commands"
         /\ osArgs \in {<<"help", n>>, <<n, "-h">>}
         /\ Returned) =>
            /\ err = errHelp
            /\ pc = "exited" =>
                  /\ exit = [kind |-> "exit", code |-> 0]
                  /\ stdout = UsageText(<<Exe(rootCmd), n>>, Commands(rootCmd)[n],
                                        defineFlags(Commands(rootCmd)[n]))

\* The exit code Main is to end with for a result and a scope cancelled or not
\* by a trapped signal: in this order help, cancellation, an exit-code error,
\* any other error, nil.
ExpectedCode(e, trapped) ==
    IF e = errHelp THEN 0
    ELSE IF trapped THEN 130
    ELSE IF IsExitError(e) THEN e.code
    ELSE IF e # NilErr THEN 1
    ELSE 0

\* C6: Runner.Main resolves exactly one outcome, in this order: help (usage
\* is rendered, exit 0), cancellation by a trapped signal (130, no message),
\* an exit-code error (its code), another error (1), nil (0); a help request
\* yields exit 0 even when cancellation arrived before.
C6_OutcomeOrder ==
    (pc = "exited" /\ exit.kind # "forced") =>
        /\ exit.code = ExpectedCode(err, trapDone)
        /\ exit.kind \in {"exit", "return"}
        /\ err = errHelp =>
              \E i \in 1..Len(stdout) : stdout[i].tag = "Usage:"
        /\ (err # errHelp /\ trapDone) => stdout = <<>>

\* C7 as stated: when the scope has been cancelled by a trapped signal and the
\* result carries an exit-code error, the process exits with the error's
\* code rather than 130.
C7_ExitCodeBeatsCancel ==
    (pc = "exited" /\ exit.kind # "forced" /\ trapDone /\ IsExitError(err)) =>
        exit.code = err.code

\* C7, amended: cancellation takes priority over unclassified errors and over
\* exit-code errors alike: once the scope has been cancelled by a trapped
\* signal, a result that is an exit-code error or any other error ends the
\* process with 130 and no message; the error's embedded code is the exit
\* code only when the scope was not cancelled.
C7_CancelBeatsErrors ==
    (pc = "exited" /\ exit.kind # "forced" /\ err # errHelp /\ err # NilErr) =>
        IF trapDone
        THEN exit.code = 130 /\ stdout = <<>>
        ELSE exit.code = (IF IsExitError(err) THEN err.code ELSE 1)

\* C7's case: an exit-code error was returned after the scope was cancelled.
C7_Witness ==
    /\ pc = "exited"
    /\ exit.kind = "exit"
    /\ trapDone
    /\ IsExitError(err)
    /\ err.code = 3
    /\ exit.code = 130

\* C8: when TermSignals is non-empty the first delivery of a configured
\* signal cancels the execution scope, which the context of every Run shares,
\* so it eventually becomes cancelled (unless the process ends first) and
\* stays cancelled; the listener cancels once however many signals arrive;
\* and with no signal delivered the scope is not cancelled while a command
\* runs.
C8_CancelOnce ==
    /\ [](cancels <= 1 /\ (cancels = 1 => cancelled))
    /\ [][cancelled => cancelled']_vars
    /\ []((SentTotal = 0 /\ pc # "exited") => ~cancelled /\ cancels = 0)
    /\ []((runner.TermSignals # {} /\ SentTotal > 0)
            => <>(cancels = 1 \/ pc = "exited"))

\* C8's case: the scope was cancelled once while a command runs, and further
\* signals have arrived since.
C8_Witness ==
    /\ pc = "running"
    /\ cancelled
    /\ cancels = 1
    /\ SentTotal = MaxSignals

\* The signals of a kind the listener of trapSeq has received: counted, or
\* waiting in its channel.
Received(s) == cnt[s] + Cardinality({i \in 1..Len(seqCh) : seqCh[i] = s})

C10_PathGrows ==
    /\ [][/\ Len(heap'.ctxs) \in {Len(heap.ctxs), Len(heap.ctxs) + 1}
          /\ \A c \in 1..Len(heap.ctxs) :
                ContextCommandsInfo(heap', c) = ContextCommandsInfo(heap, c)
          /\ Len(heap'.ctxs) > Len(heap.ctxs) =>
                LET new == ContextCommandsInfo(heap', Len(heap'.ctxs))
                IN  /\ Len(new) = Len(PathOf(ctx)) + 1
                    /\ IsPrefix(PathOf(ctx), new)
          /\ ctx' # ctx => ctx' = Len(heap'.ctxs) /\ ctx' > Len(heap.ctxs)]_vars
    /\ [](\A k \in 1..Len(calls) :
            /\ [i \in 1..Len(PathOf(calls[k].ctx)) |-> PathOf(calls[k].ctx)[i].Name]
                  = NamesBefore(k)
            /\ \A j \in 1..(k - 1) : IsPrefix(PathOf(calls[j].ctx), PathOf(calls[k].ctx)))

\* C10's case: a b has reached the Run of the leaf, with a path of three.
C10_Witness ==
    /\ osArgs = <<"a", "b">>
    /\ rootCmd = "root"
    /\ Len(calls) = 3
    /\ Len(PathOf(calls[3].ctx)) = 3
    /\ pc = "running"

\* The calls run makes (cmd.Run at the end of run): the first, and those
\* made for a table's dispatch; the others are made by a Container's Run.
FromRun(k) == k = 1 \/ Kind(calls[k - 1].cmd) = "Commands"

\* The entry setup makes for call k: the name it is dispatched under, the
\* command, and its flag store (none without the flag-definition capability).
OwnEntry(k, e) ==
    /\ e.Name = Last(NamesBefore(k))
    /\ e.Command = calls[k].cmd
    /\ e.FlagSet # 0 <=> IsFlagDefiner(calls[k].cmd)
    /\ e.FlagSet # 0 =>
          /\ heap.flagSets[e.FlagSet].name = e.Name
          /\ DOMAIN heap.flagSets[e.FlagSet].formal = DOMAIN defineFlags(calls[k].cmd)

TableOf(c) == IF Kind(c) = "Container" THEN Wrapped(c) ELSE c

\* The path as pairs of name and command.
Steps(p) == [i \in 1..Len(p) |-> <<p[i].Name, p[i].Command>>]

\* Every entry after the first is a name found in the table of the entry
\* before it, with the command registered under that name.
Traversed(p) ==
    \A i \in 2..Len(p) :
        /\ p[i].Name \in DOMAIN Commands(TableOf(p[i - 1].Command))
        /\ p[i].Command = Commands(TableOf(p[i - 1].Command))[p[i].Name]

\* C12 as stated: the command path is exactly the sequence of table
\* traversals performed, in order; for root = {a: tableB}, tableB = {b: leaf}
\* and [a, b] the path when leaf's Run begins is [(a, tableB), (b, leaf)].
C12_OnlyTraversals ==
    /\ \A k \in 1..Len(calls) :
          [i \in 1..Len(PathOf(calls[k].ctx)) |-> PathOf(calls[k].ctx)[i].Name]
              = Tail(NamesBefore(k))
    /\ (rootCmd = "root" /\ osArgs = <<"a", "b">> /\ Len(calls) = 3) =>
          Steps(PathOf(calls[3].ctx)) = <<<<"a", "tableB">>, <<"b", "leaf">>>>

\* C12, amended: the command path starts with the entry of the root command,
\* under its name or else the program's, which Runner.Main dispatches first;
\* the sequence of table traversals performed follows it in traversal order,
\* and no context holds an entry for a name whose lookup failed.  For [a, b]
\* the path when leaf's Run begins is [(prog, root), (a, tableB), (b, leaf)].
C12_RootThenTraversals ==
    /\ \A k \in 1..Len(calls) :
          LET p == PathOf(calls[k].ctx)
          IN  /\ [i \in 1..Len(p) |-> p[i].Name] = NamesBefore(k)
              /\ Len(p) = 1 + Cardinality({j \in TableCalls : j < k})
    /\ \A c \in 2..Len(heap.ctxs) :
          /\ Steps(PathOf(c))[1] = <<Exe(rootCmd), rootCmd>>
          /\ Traversed(PathOf(c))
    /\ (rootCmd = "root" /\ osArgs = <<"a", "b">> /\ Len(calls) = 3) =>
          Steps(PathOf(calls[3].ctx))
              = <<<<"prog", "root">>, <<"a", "tableB">>, <<"b", "leaf">>>>

\* C12's case: a b foo was dispatched through two tables to the leaf, whose
\* Run has begun.
C12_Witness ==
    /\ rootCmd = "root"
    /\ osArgs = <<"a", "b", "foo">>
    /\ Len(calls) = 3
    /\ calls[3].cmd = "leaf"
    /\ calls[3].args = <<"foo">>
    /\ Steps(PathOf(calls[3].ctx))
          = <<<<"prog", "root">>, <<"a", "tableB">>, <<"b", "leaf">>>>

\* C13: for any nesting of tables and containers, the error value the
\* innermost Run returned (the help-request sentinel and exit-code errors
\* included) is returned unchanged by every enclosing call and reaches the
\* Runner as the same value: while it travels up no layer changes it, and no
\* layer recovers or retries by running a command again.
C13_ErrorsVerbatim ==
    /\ [][pc = "ret" =>
            /\ err' = err
            /\ calls' = calls
            /\ pc' \in {"ret", "exited"}
            /\ Len(stack') <= Len(stack)]_vars
    /\ [][(pc = "running" /\ pc' = "ret") =>
            /\ err' \in LeafResults(cancelled)
            /\ stack' = stack]_vars
    /\ []((pc = "exited" /\ exit.kind # "forced") => stack = <<>>)

\* C13's case: an exit-code error returned by the leaf wrapped in a Container
\* under a table wrapped in the root Container has reached Main.
C13_Witness ==
    /\ rootCmd = "app"
    /\ osArgs = <<"b">>
    /\ Len(calls) = 4
    /\ calls[4].cmd = "leaf"
    /\ pc = "ret"
    /\ stack = <<>>
    /\ err = Exitf(3, <<"failed">>)

\* The arguments run was given for call k: those of the process for the
\* first call, those after the name for a table's dispatch.
GivenArgs(k) == IF k = 1 THEN osArgs ELSE Tail(calls[k - 1].args)

\* The flag stores of the entries of a path.
StoresOf(p) == {p[i].FlagSet : i \in 1..Len(p)} \ {0}

\* No store belongs to two entries of a path, and each holds the flags its
\* entry's command defines and no others.
OwnStores(p) ==
    \A i \in 1..Len(p) :
        p[i].FlagSet # 0 =>
            /\ \A j \in 1..Len(p) : j # i => p[j].FlagSet # p[i].FlagSet
            /\ heap.flagSets[p[i].FlagSet].name = p[i].Name
            /\ DOMAIN heap.flagSets[p[i].FlagSet].formal = DOMAIN defineFlags(p[i].Command)

\* A step creates at most one store and leaves every store there is as it is.
StoresKept ==
    /\ Len(heap'.flagSets) \in {Len(heap.flagSets), Len(heap.flagSets) + 1}
    /\ \A f \in 1..Len(heap.flagSets) : heap'.flagSets[f] = heap.flagSets[f]

\* C14 as stated: every dispatch step gets a freshly created flag store that
\* only that step's command populates; the tokens following a command's name
\* are parsed only against that store; no step's flag definition or parsing
\* reads or modifies the store of any other path entry.
C14_EveryStepOwnStore ==
    \A c \in 2..Len(heap.ctxs) :
        /\ OwnStores(PathOf(c))
        /\ Cardinality(StoresOf(PathOf(c))) = Len(PathOf(c))

\* C14, amended: every dispatch step of a command with the flag-definition
\* capability gets a freshly created flag store that only that command
\* populates, and the tokens following the command's name are parsed against
\* that store only; a step of a command without the capability gets no store
\* and parses nothing; no step modifies a store created by another step.
C14_OwnStoreOnly ==
    /\ [][StoresKept]_vars
    /\ [](\A c \in 2..Len(heap.ctxs) :
            LET p == PathOf(c)
            IN  /\ OwnStores(p)
                /\ \A i \in 1..Len(p) : p[i].FlagSet # 0 <=> IsFlagDefiner(p[i].Command))
    /\ [](\A k \in 1..Len(calls) :
            FromRun(k) =>
                LET e == Last(PathOf(calls[k].ctx))
                IN  IF e.FlagSet # 0
                    THEN ParsedInto(heap.flagSets[e.FlagSet], GivenArgs(k), calls[k].args)
                    ELSE calls[k].args = GivenArgs(k))

\* C14's case: under the root Container, which defines verbose, sleep -d 2s
\* has reached the Run of sleep: two stores, d set in the store of sleep only.
C14_Witness ==
    /\ rootCmd = "app"
    /\ osArgs = <<"sleep", "-d", "2s">>
    /\ Len(calls) = 3
    /\ calls[3].cmd = "sleep"
    /\ Len(heap.flagSets) = 2
    /\ DOMAIN heap.flagSets[1].formal = {"verbose"}
    /\ heap.flagSets[1].actual = {}
    /\ heap.flagSets[2].formal["d"].value = "2s"
    /\ heap.flagSets[2].actual = {"d"}

\* C15: a Container with no overrides set behaves as the wrapped Command
\* does, for Name, Synopsis, Description, flag definition and Run: whenever
\* such a Container is dispatched, dispatching the wrapped Command in its
\* place, under the same name with the same arguments, defines the same
\* flags, parses the same, passes the same arguments to Run or returns the
\* same error, and has the same name, synopsis and description to render.
C15_ContainerTransparent ==
    (pc = "run" /\ Kind(cmd) = "Container" /\ DoSet(cmd) = {}) =>
        LET byContainer == run(heap, ctx, cmd, cmdName, args)
            byWrapped == run(heap, ctx, Wrapped(cmd), cmdName, args)
        IN  /\ name(cmd) = name(Wrapped(cmd))
            /\ synopsis(cmd) = synopsis(Wrapped(cmd))
            /\ description(cmd) = description(Wrapped(cmd))
            /\ defineFlags(cmd) = defineFlags(Wrapped(cmd))
            /\ byContainer.invoke = byWrapped.invoke
            /\ byContainer.err = byWrapped.err
            /\ byContainer.args = byWrapped.args

\* The Containers of the model.
Containers == {c \in CmdIds : Kind(c) = "Container"}

\* C16: for each of Container's capabilities (Name, Synopsis, Description,
\* flag definition) and for Run itself there is an override function; when
\* it is set it is used and the wrapped Command is not consulted, and when it
\* is not set the result is that of the same probe on the wrapped Command.
C16_OverridesUsed ==
    /\ {"DoName", "DoSynopsis", "DoDescription", "DoDefineFlags", "DoRun"}
          \subseteq ContainerFields
    /\ \A c \in Containers :
          /\ DoSet(c) \subseteq ContainerFields
          /\ "DoName" \notin DoSet(c) => name(c) = name(Wrapped(c))
          /\ "DoSynopsis" \notin DoSet(c) => synopsis(c) = synopsis(Wrapped(c))
          /\ "DoDescription" \notin DoSet(c) => description(c) = description(Wrapped(c))
          /\ defineFlags(c) = IF "DoDefineFlags" \in DoSet(c)
                              THEN AppFlags
                              ELSE defineFlags(Wrapped(c))
    /\ \A k \in 2..Len(calls) :
          Kind(calls[k - 1].cmd) = "Container" =>
              /\ "DoRun" \notin DoSet(calls[k - 1].cmd)
              /\ calls[k].cmd = Wrapped(calls[k - 1].cmd)
              /\ calls[k].args = calls[k - 1].args

\* C17 as stated: for every command the dispatch engine runs, one without
\* the flag-definition capability included, a flag store is created and the
\* path entry of the step carries it, present and empty when the capability
\* is absent.
C17_AlwaysStore ==
    \A c \in 2..Len(heap.ctxs) :
        \A i \in 1..Len(PathOf(c)) :
            LET e == PathOf(c)[i]
            IN  /\ e.FlagSet # 0
                /\ ~IsFlagDefiner(e.Command) =>
                      DOMAIN heap.flagSets[e.FlagSet].formal = {}

\* C17, amended: a flag store is created, and carried by the path entry,
\* only for a command with the flag-definition capability (empty when the
\* command defines no flag); for a command without it no store is created,
\* the entry's flag store is absent, the step cannot fail, and Run receives
\* its arguments unparsed, flag-like tokens included.
C17_StoreOnlyForDefiners ==
    /\ \A c \in 2..Len(heap.ctxs) :
          \A i \in 1..Len(PathOf(c)) :
              LET e == PathOf(c)[i]
              IN  /\ e.FlagSet = 0 <=> ~IsFlagDefiner(e.Command)
                  /\ e.FlagSet # 0 =>
                        DOMAIN heap.flagSets[e.FlagSet].formal = DOMAIN defineFlags(e.Command)
    /\ (pc = "run" /\ ~IsFlagDefiner(cmd)) =>
          LET r == run(heap, ctx, cmd, cmdName, args)
          IN  /\ r.invoke
              /\ r.args = args
              /\ Len(r.h.flagSets) = Len(heap.flagSets)
    /\ \A k \in 1..Len(calls) :
          (FromRun(k) /\ ~IsFlagDefiner(calls[k].cmd)) => calls[k].args = GivenArgs(k)

\* C17's case: a b -h has reached the Run of the leaf, which defines no
\* flags: its entry has no store and it is given -h.
C17_Witness ==
    /\ rootCmd = "root"
    /\ osArgs = <<"a", "b", "-h">>
    /\ Len(calls) = 3
    /\ calls[3].cmd = "leaf"
    /\ calls[3].args = <<"-h">>
    /\ Last(PathOf(calls[3].ctx)).FlagSet = 0
    /\ heap.flagSets = <<>>

\* The last dispatch step failed in its parse: run has returned, the context
\* setup made last was passed to no Run, and it is not the registration made
\* for help <name>.
ParseFailed ==
    /\ pc = "ret" \/ (pc = "exited" /\ exit.kind # "forced")
    /\ Len(heap.ctxs) >= 2
    /\ \A k \in 1..Len(calls) : calls[k].ctx # Len(heap.ctxs)
    /\ Len(calls) \notin HelpCalls

\* The arguments that step's parse was given.
FailedArgs == IF calls = <<>> THEN osArgs ELSE Tail(calls[Len(calls)].args)

\* C18: when the parse strategy returns an error for a dispatch step, that
\* command's Run is never invoked and the error is returned to the caller;
\* the parser's own help request is replaced by the help-request sentinel,
\* so that the Runner renders usage and exits 0.
C18_ParseErrorOutcome ==
    ParseFailed =>
        /\ err # NilErr
        /\ err # flagErrHelp
        /\ Last(PathOf(Len(heap.ctxs))).Command = cmd
        /\ Last(PathOf(Len(heap.ctxs))).FlagSet # 0
        /\ FailedArgs # <<>>
        /\ IF Head(FailedArgs) = "-h" THEN err = errHelp ELSE err.kind = "error"
        /\ (err = errHelp /\ pc = "exited" /\ exit.kind # "forced") =>
              /\ exit = [kind |-> "exit", code |-> 0]
              /\ \E i \in 1..Len(stdout) : stdout[i].tag = "Usage:"

\* C19: Commands.Run terminates for every finite argument list: the leading
\* help tokens are consumed by the table that received them, which then
\* dispatches to no sub-command; every dispatch passes the sub-command
\* strictly fewer arguments than the table received; so the arguments of
\* successive table calls shrink and, even for tables that contain each
\* other, the number of dispatches is at most the number of arguments.
C19_BoundedDispatch ==
    /\ \A k \in TableCalls :
          (calls[k].args # <<>> /\ Head(calls[k].args) = "help") => k = Len(calls)
    /\ \A k \in Dispatches : Len(calls[k + 1].args) < Len(calls[k].args)
    /\ \A j, k \in TableCalls : j < k => Len(calls[k].args) < Len(calls[j].args)
    /\ Cardinality(Dispatches) <= Len(osArgs)
    /\ Len(calls) <= 2 * Len(osArgs) + 2

\* C19's case: a a a went from the root table to the table under a, which
\* holds the root table under a, and round again until no argument was left.
C19_Witness ==
    /\ rootCmd = "root"
    /\ osArgs = <<"a", "a", "a">>
    /\ Len(calls) = 4
    /\ calls[3].cmd = "root"
    /\ calls[4].cmd = "tableB"
    /\ calls[4].args = <<>>
    /\ pc = "ret"
    /\ err = errHelp

\* The entry a help request resolves to: the last of the path of the context
\* setup made last.
Resolved == Last(PathOf(Len(heap.ctxs)))

\* C20: on a help request the output written is, in order, the resolved
\* command's name if it has one, the line Usage:, the command path with the
\* command's synopsis, its description if it has one, and an Options: section
\* if its flag store prints any defaults; for help alone against a non-empty
\* table the exit code is 0 and the output begins with the line Usage:.
C20_HelpOutput ==
    (pc = "exited" /\ exit.kind # "forced" /\ err = errHelp) =>
        /\ exit = [kind |-> "exit", code |-> 0]
        /\ stdout = UsageText(commandPath(heap, Len(heap.ctxs)), Resolved.Command,
                              IF Resolved.FlagSet = 0 THEN <<>>
                              ELSE heap.flagSets[Resolved.FlagSet].formal)
        /\ (rootCmd = "root" /\ osArgs = <<"help">>) => stdout[1].tag = "Usage:"

\* A step of a signal listener or a signal delivery: something of the
\* listeners' own changes, or the force-termination listener ends the process.
ListenerStep ==
    \/ sent' # sent
    \/ trapCh' # trapCh
    \/ seqCh' # seqCh
    \/ cnt' # cnt
    \/ cancels' # cancels
    \/ trapDone' # trapDone
    \/ exit'.kind = "forced" /\ exit.kind # "forced"

\* C21: the signal listeners only cancel the shared scope, update their own
\* counters or invoke the hard-exit callback: in every interleaving of signal
\* deliveries with dispatch, a delivery or a listener's step leaves the
\* command path of every context, every flag store and the dispatch itself
\* (the current call, its arguments, the calls made, the error) unchanged.
C21_ListenersKeepPath ==
    [][ListenerStep =>
          /\ heap' = heap
          /\ \A c \in 1..Len(heap.ctxs) :
                ContextCommandsInfo(heap', c) = ContextCommandsInfo(heap, c)
          /\ <<cmd, cmdName, args, ctx, stack, calls, err, stdout>>'
                = <<cmd, cmdName, args, ctx, stack, calls, err, stdout>>
          /\ pc' \in {pc, "exited"}]_vars

\* C21's case: sleep is running with its entry on the path and its flag
\* store made, the scope has been cancelled by a signal, and the
\* force-termination listener has counted one.
C21_Witness ==
    /\ osArgs = <<"sleep">>
    /\ rootCmd = "root"
    /\ pc = "running"
    /\ cancelled
    /\ cancels = 1
    /\ cnt["SIGINT"] = 1
    /\ Len(PathOf(ctx)) = 2
    /\ Len(heap.flagSets) = 1

\* C22: whenever run returns the help-request sentinel to Runner.Main, the
\* command path seen through the context Main passes to printUsage and
\* printFlags is non-empty, so that lastCommandInfo does not panic, whatever
\* the arguments: none, help, help <name>, <name> -h.
C22_HelpPathNonEmpty ==
    /\ (pc = "ret" /\ stack = <<>> /\ err = errHelp) =>
          /\ ContextCommandsInfo(heap, MainCtx) # <<>>
          /\ ~lastCommandInfoPanics(heap, MainCtx)
    /\ (pc = "exited" /\ err = errHelp) => exit.kind # "panic"

\* ------------------------------------- WithCommandInfo as an exported call
\* WithCommandInfo is exported: code of the application, a command's Run or
\* a test, may extend any context it holds, in any order.

\* The entries such callers add.
CtxInfos ==
    {[Name |-> n, Command |-> "leaf", FlagSet |-> 0] : n \in {"x", "y"}}

CtxInit == Init /\ osArgs = <<>> /\ rootCmd = "root" /\ runner = DefaultRunner

\* WithCommandInfo(c, info) is called and its result kept.
Extend(c, info) ==
    /\ Len(heap.ctxs) < MaxCtxs
    /\ c \in 1..Len(heap.ctxs)
    /\ heap' = WithCommandInfo(heap, c, info)
    /\ UNCHANGED <<input, pc, frame, err, calls, exit, stdout, listeners>>

CtxNext == \E c \in 1..MaxCtxs, info \in CtxInfos : Extend(c, info)

CtxSpec == CtxInit /\ [][CtxNext]_vars

\* C23: extending a context's path with WithCommandInfo never changes the
\* path observed through any other context: whatever the sequence of calls,
\* two calls on the same parent included, ContextCommandsInfo of every
\* context made before keeps returning the entries it returned before.
C23_OtherPathsKept ==
    [][\A c \in 1..Len(heap.ctxs) :
          ContextCommandsInfo(heap', c) = ContextCommandsInfo(heap, c)]_vars

\* C24: a sub-command registered in a table under the key help is never
\* dispatched by that table: every leading help token is taken as the help
\* request and never looked up, so no path entry is ever made under the name
\* help, a table given help tokens only returns the help request, and a call
\* that starts with help runs no sub-command.
C24_HelpNeverDispatched ==
    /\ \A c \in 1..Len(heap.ctxs) :
          \A i \in 1..Len(PathOf(c)) : PathOf(c)[i].Name # "help"
    /\ \A k \in TableCalls :
          /\ (calls[k].args # <<>> /\ Head(calls[k].args) = "help") => k = Len(calls)
          /\ (k = Len(calls) /\ Returned /\ calls[k].args # <<>>
                /\ \A i \in 1..Len(calls[k].args) : calls[k].args[i] = "help")
                => /\ err = errHelp
                   /\ \A c \in 1..Len(heap.ctxs) : heap.ctxs[c].parent # calls[k].ctx

\* C24's case: the table under a, which holds a command under the key help,
\* was run with help help and returned the help request.
C24_Witness ==
    /\ rootCmd = "root"
    /\ osArgs = <<"a", "help", "help">>
    /\ Len(calls) = 2
    /\ calls[2].cmd = "tableB"
    /\ "help" \in DOMAIN Commands(calls[2].cmd)
    /\ pc = "ret"
    /\ stack = <<>>
    /\ err = errHelp

\* C25: through contextCommandsInfo the whole execution path is accessible
\* from every context of the invocation, the Runner's initial one included:
\* once a dispatch step has been made, the runtime info's commands are the
\* entries appended so far, i.e. the exported path of the deepest context.
C25_RuntimePath ==
    Len(heap.ctxs) >= 2 =>
        \A c \in 1..Len(heap.ctxs) :
            /\ ~contextRuntimeInfoPanics(heap, c)
            /\ contextCommandsInfo(heap, c) = PathOf(Len(heap.ctxs))

====
